---- MODULE Spec2Model ----
(***************************************************************************)
(* A model of gomusicbrainz.go, a MusicBrainz WS2 search client.           *)
(*                                                                         *)
(* One WS2Client and one calling goroutine.  A search operation is split   *)
(* at the places where it can stop or hand control to the outside world:   *)
(*   idle -> newreq -> do -> decode -> return -> back -> idle              *)
(* with "exited" the state after log.Fatalln (os.Exit(1)).                 *)
(*                                                                         *)
(* Strings.  A Go string that the code only concatenates is a TLA+ string. *)
(* A Go string that is escaped into a URL (the search term, the parameter  *)
(* values, the host of the root URL) is a sequence of tokens, each token   *)
(* either a run of unreserved characters or one reserved character; the    *)
(* empty Go string is the empty sequence.                                  *)
(***************************************************************************)
EXTENDS Integers, Sequences, FiniteSets, TLC

VARIABLES
    WS2RootURL,       \* c.WS2RootURL
    userAgentHeader,  \* c.userAgentHeader
    lastInfo,         \* arguments of the most recent SetClientInfo call
    pc,               \* position of the calling goroutine
    op,               \* the search operation in progress (or the last one)
    args,             \* its arguments searchTerm, limit, offset
    endpoint,         \* its local endpoint
    params,           \* its local params (url.Values)
    data,             \* its local result (the envelope Decode fills)
    req,              \* getReqeust's req: <<>> or <<request>>
    sent,             \* how many requests this call (or the last one) handed to client.Do
    resp,             \* getReqeust's resp: <<>> or <<[body, open]>>, body a token sequence
    err,              \* getReqeust's err
    ret               \* what the search operation returned: <<>> or <<[value, err]>>

vars == <<WS2RootURL, userAgentHeader, lastInfo, pc, op, args, endpoint,
          params, data, req, sent, resp, err, ret>>

(***************************************************************************)
(* Bounds and input sets                                                   *)
(***************************************************************************)
\* longest entity list a response body carries
MaxBody == 2

Entities == {"e1", "e2"}

SearchTerms == { <<>>, <<"Beatles">>, <<"AC", "&", "DC">>, <<"Pink", " ", "Floyd">> }

Limits == {-2, -1, 0, 1, 25, 100, 101}

Offsets == {-2, -1, 0, 67, 3489}

Applications == {"App", "MyTool"}

Versions == {"1.0"}

Contacts == {"a@b.com"}

\* url.Parse("https://musicbrainz.org/ws/2")
DefaultRootURL == [scheme |-> "https", host |-> <<"musicbrainz.org">>, path |-> "/ws/2"]

\* values a caller may assign to the exported field
RootURLs ==
    { DefaultRootURL,
      [scheme |-> "http", host |-> <<"127.0.0.1:8080">>, path |-> ""],
      [scheme |-> "http", host |-> <<"bad", " ", "host">>, path |-> ""] }

\* A response body is a sequence of XML tokens.  The envelope types and
\* their xml tags are declared outside gomusicbrainz.go; the shape below is
\* the one the specification gives: a metadata root holding one list of
\* entities.
Tok(kind, name) == [kind |-> kind, name |-> name]

OpenMetadata == Tok("open", "metadata")

OpenList == Tok("open", "list")

CloseList == Tok("close", "list")

CloseMetadata == Tok("close", "metadata")

Junk == Tok("junk", "")

EntityToks(s) == [i \in DOMAIN s |-> Tok("entity", s[i])]

\* the body that holds the entities s in the expected shape
Wrap(s) == <<OpenMetadata, OpenList>> \o EntityToks(s) \o <<CloseList, CloseMetadata>>

EntityLists == UNION { [1..n -> Entities] : n \in 0..MaxBody }

\* response bodies: the expected shape, the expected shape cut short at any
\* place, and the expected shape with something else from any place on
Bodies ==
    UNION { {Wrap(s)}
            \cup { SubSeq(Wrap(s), 1, k) : k \in 0..(Len(Wrap(s)) - 1) }
            \cup { Append(SubSeq(Wrap(s), 1, k), Junk) : k \in 0..(Len(Wrap(s)) - 1) }
          : s \in EntityLists }

(***************************************************************************)
(* Pure functions                                                          *)
(***************************************************************************)
RECURSIVE Concat(_)
\* string concatenation of a token sequence
Concat(toks) ==
    IF toks = <<>> THEN "" ELSE Head(toks) \o Concat(Tail(toks))

Digit(d) ==
    CASE d = 0 -> "0" [] d = 1 -> "1" [] d = 2 -> "2" [] d = 3 -> "3"
      [] d = 4 -> "4" [] d = 5 -> "5" [] d = 6 -> "6" [] d = 7 -> "7"
      [] d = 8 -> "8" [] d = 9 -> "9"

RECURSIVE Itoa(_)
\* strconv.Itoa
Itoa(i) ==
    IF i < 0 THEN "-" \o Itoa(-i)
    ELSE IF i < 10 THEN Digit(i)
    ELSE Itoa(i \div 10) \o Digit(i % 10)

\* faulty variants of intParamToString: no special case; every value up to
\* 0 taken for the sentinel; every negative value taken for the sentinel
intParamToString_literal(i) == <<Itoa(i)>>

intParamToString_nonPositive(i) == IF i <= 0 THEN <<>> ELSE <<Itoa(i)>>

intParamToString_negative(i) == IF i < 0 THEN <<>> ELSE <<Itoa(i)>>

\* intParamToString returns an empty string for -1.
intParamToString(i) == IF i = -1 THEN <<>> ELSE <<Itoa(i)>>

\* SetClientInfo's right-hand side
FormatClientInfo(application, version, contact) ==
    application \o "/" \o version \o " ( " \o contact \o " ) "

\* url.QueryEscape on one token
QueryEscapeTok(t) ==
    CASE t = " " -> "+" [] t = "&" -> "%26" [] OTHER -> t

QueryEscape(s) == Concat([i \in DOMAIN s |-> QueryEscapeTok(s[i])])

\* url.Values.Encode: keys sorted, every value of a key as key=value
SortedKeys == <<"limit", "offset", "query">>

RECURSIVE EncodeFrom(_, _)
EncodeFrom(v, ks) ==
    IF ks = <<>> THEN <<>>
    ELSE IF Head(ks) \in DOMAIN v
         THEN [i \in DOMAIN v[Head(ks)] |->
                  [key |-> Head(ks), value |-> QueryEscape(v[Head(ks)][i])]]
              \o EncodeFrom(v, Tail(ks))
         ELSE EncodeFrom(v, Tail(ks))

EncodePairs(v) == EncodeFrom(v, SortedKeys)

RECURSIVE JoinPairs(_)
JoinPairs(ps) ==
    IF ps = <<>> THEN ""
    ELSE Head(ps).key \o "=" \o Head(ps).value
         \o (IF Tail(ps) = <<>> THEN "" ELSE "&" \o JoinPairs(Tail(ps)))

Encode(v) == JoinPairs(EncodePairs(v))

\* (*url.URL).String: the host is escaped
EscapeHostTok(t) == IF t = " " THEN "%20" ELSE t

EscapeHost(h) == [i \in DOMAIN h |-> EscapeHostTok(h[i])]

URLString(u) == u.scheme \o "://" \o Concat(EscapeHost(u.host)) \o u.path

\* http.NewRequest parses the URL it is given: an escape below %80 in the
\* host is an invalid URL escape
NewRequestOK(u) == \A i \in DOMAIN u.host : EscapeHost(u.host)[i] # "%20"

\* the params literal of the four search operations
MakeParams(searchTerm, limit, offset) ==
    [query  |-> <<searchTerm>>,
     limit  |-> <<intParamToString(limit)>>,
     offset |-> <<intParamToString(offset)>>]

\* result := artistResult{} etc.
EmptyResult == [Response |-> [Entities |-> <<>>]]

RECURSIVE ParseBody(_, _, _)
\* the decoder reads the root element token by token and appends each entity
\* it has read to the payload's list; it stops at the end of the root
\* element, or with an error at the first token that does not fit, keeping
\* what it has appended
ParseBody(st, acc, toks) ==
    IF st = "done" THEN [list |-> acc, err |-> "nil"]
    ELSE IF toks = <<>> THEN [list |-> acc, err |-> "DecodeError"]
    ELSE LET t == Head(toks) IN
         CASE st = "start" /\ t = OpenMetadata -> ParseBody("root", acc, Tail(toks))
           [] st = "root" /\ t = OpenList -> ParseBody("list", acc, Tail(toks))
           [] st = "list" /\ t.kind = "entity" ->
                 ParseBody("list", Append(acc, t.name), Tail(toks))
           [] st = "list" /\ t = CloseList -> ParseBody("tail", acc, Tail(toks))
           [] st = "tail" /\ t = CloseMetadata -> ParseBody("done", acc, Tail(toks))
           [] OTHER -> [list |-> acc, err |-> "DecodeError"]

\* what decoder.Decode(data) leaves in the envelope
DecodeInto(d, body) ==
    [d EXCEPT !.Response.Entities = ParseBody("start", @, body).list]

\* what decoder.Decode(data) returns
DecodeErr(body) == ParseBody("start", <<>>, body).err

\* faulty variant: the request is sent again
SendRequest_twice(n) == n + 2

\* client.Do(req), counted
SendRequest(n) == n + 1

\* faulty variant: no deferred Close
DeferredClose_missing(r) == r

\* defer resp.Body.Close()
DeferredClose(r) == [i \in DOMAIN r |-> [r[i] EXCEPT !.open = FALSE]]

\* faulty variant: the transport error is returned
Fatalln_returns == "return"

\* log.Fatalln(err)
Fatalln == "exited"

\* faulty variant: the envelope's payload is returned whatever err is
SearchResult_partial(d, e) == [value |-> <<d.Response>>, err |-> e]

\* faulty variant: the payload is dropped
SearchResult_empty(d, e) ==
    IF e # "nil" THEN [value |-> <<>>, err |-> e]
    ELSE [value |-> <<EmptyResult.Response>>, err |-> "nil"]

\* the two return statements of a search operation
SearchResult(d, e) ==
    IF e # "nil" THEN [value |-> <<>>, err |-> e]
    ELSE [value |-> <<d.Response>>, err |-> "nil"]

(***************************************************************************)
(* Initial state: NewWS2Client()                                           *)
(***************************************************************************)
DefaultInfo ==
    <<"GoMusicBrainz - a Golang WS2 client", "0.0.1-beta", "michael@michiwend.com">>

\* the value of args while no call is in progress
NoArgs == [searchTerm |-> <<>>, limit |-> -1, offset |-> -1]

Init ==
    /\ WS2RootURL = DefaultRootURL
    /\ userAgentHeader = FormatClientInfo(DefaultInfo[1], DefaultInfo[2], DefaultInfo[3])
    /\ lastInfo = DefaultInfo
    /\ pc = "idle"
    /\ op = "none"
    /\ args = NoArgs
    /\ endpoint = ""
    /\ params = MakeParams(<<>>, -1, -1)
    /\ data = EmptyResult
    /\ req = <<>>
    /\ sent = 0
    /\ resp = <<>>
    /\ err = "nil"
    /\ ret = <<>>

(***************************************************************************)
(* Actions                                                                 *)
(***************************************************************************)
SetClientInfo ==
    /\ pc = "idle"
    /\ \E application \in Applications, version \in Versions, contact \in Contacts :
          /\ userAgentHeader' = FormatClientInfo(application, version, contact)
          /\ lastInfo' = <<application, version, contact>>
    /\ UNCHANGED <<WS2RootURL, pc, op, args, endpoint, params, data, req, sent,
                   resp, err, ret>>

\* an assignment to the exported field WS2RootURL
SetRootURL ==
    /\ pc = "idle"
    /\ \E u \in RootURLs : u # WS2RootURL /\ WS2RootURL' = u
    /\ UNCHANGED <<userAgentHeader, lastInfo, pc, op, args, endpoint, params,
                   data, req, sent, resp, err, ret>>

\* a search operation up to its call of getReqeust
BeginSearch(name, path) ==
    /\ pc = "idle"
    /\ \E searchTerm \in SearchTerms, limit \in Limits, offset \in Offsets :
          /\ args' = [searchTerm |-> searchTerm, limit |-> limit, offset |-> offset]
          /\ params' = MakeParams(searchTerm, limit, offset)
    /\ op' = name
    /\ endpoint' = path
    /\ data' = EmptyResult
    /\ req' = <<>>
    /\ sent' = 0
    /\ resp' = <<>>
    /\ err' = "nil"
    /\ ret' = <<>>
    /\ pc' = "newreq"
    /\ UNCHANGED <<WS2RootURL, userAgentHeader, lastInfo>>

SearchArtist ==
    /\ pc = "idle"
    /\ BeginSearch("SearchArtist", "/artist")

SearchRelease ==
    /\ pc = "idle"
    /\ BeginSearch("SearchRelease", "/release")

\* faulty variant: the endpoint of the operation above
SearchReleaseGroup_copied ==
    /\ pc = "idle"
    /\ BeginSearch("SearchReleaseGroup", "/release")

SearchReleaseGroup ==
    /\ pc = "idle"
    /\ BeginSearch("SearchReleaseGroup", "/release-group")

SearchTag ==
    /\ pc = "idle"
    /\ BeginSearch("SearchTag", "/tag")

\* http.NewRequest succeeds; the User-Agent header is set
NewRequest ==
    /\ pc = "newreq"
    /\ NewRequestOK(WS2RootURL)
    /\ req' = << [method |-> "GET",
                  url    |-> URLString(WS2RootURL) \o endpoint \o "?" \o Encode(params),
                  query  |-> EncodePairs(params),
                  header |-> [UserAgent |-> userAgentHeader]] >>
    /\ pc' = "do"
    /\ UNCHANGED <<WS2RootURL, userAgentHeader, lastInfo, op, args, endpoint,
                   params, data, sent, resp, err, ret>>

\* http.NewRequest fails
NewRequestFail ==
    /\ pc = "newreq"
    /\ ~NewRequestOK(WS2RootURL)
    /\ err' = "NewRequestError"
    /\ pc' = "exited"
    /\ UNCHANGED <<WS2RootURL, userAgentHeader, lastInfo, op, args, endpoint,
                   params, data, req, sent, resp, ret>>

\* client.Do(req) returns a response
DoResponse ==
    /\ pc = "do"
    /\ sent' = SendRequest(sent)
    /\ \E body \in Bodies : resp' = << [body |-> body, open |-> TRUE] >>
    /\ pc' = "decode"
    /\ UNCHANGED <<WS2RootURL, userAgentHeader, lastInfo, op, args, endpoint,
                   params, data, req, err, ret>>

\* client.Do(req) returns an error
DoFail ==
    /\ pc = "do"
    /\ sent' = SendRequest(sent)
    /\ err' = "TransportError"
    /\ pc' = Fatalln
    /\ UNCHANGED <<WS2RootURL, userAgentHeader, lastInfo, op, args, endpoint,
                   params, data, req, resp, ret>>

\* decoder.Decode(data)
Decode ==
    /\ pc = "decode"
    /\ data' = DecodeInto(data, resp[1].body)
    /\ err' = DecodeErr(resp[1].body)
    /\ pc' = "return"
    /\ UNCHANGED <<WS2RootURL, userAgentHeader, lastInfo, op, args, endpoint,
                   params, req, sent, resp, ret>>

\* getReqeust returns: the deferred Close runs
GetRequestReturn ==
    /\ pc = "return"
    /\ resp' = DeferredClose(resp)
    /\ pc' = "back"
    /\ UNCHANGED <<WS2RootURL, userAgentHeader, lastInfo, op, args, endpoint,
                   params, data, req, sent, err, ret>>

\* the search operation returns to its caller; its locals are gone
SearchReturn ==
    /\ pc = "back"
    /\ ret' = << SearchResult(data, err) >>
    /\ pc' = "idle"
    /\ args' = NoArgs
    /\ endpoint' = ""
    /\ params' = MakeParams(<<>>, -1, -1)
    /\ data' = EmptyResult
    /\ req' = <<>>
    /\ err' = "nil"
    /\ UNCHANGED <<WS2RootURL, userAgentHeader, lastInfo, op, sent, resp>>

Next ==
    \/ SetClientInfo
    \/ SetRootURL
    \/ SearchArtist
    \/ SearchRelease
    \/ SearchReleaseGroup
    \/ SearchTag
    \/ NewRequest
    \/ NewRequestFail
    \/ DoResponse
    \/ DoFail
    \/ Decode
    \/ GetRequestReturn
    \/ SearchReturn

Spec == Init /\ [][Next]_vars

(***************************************************************************)
(* Helpers of the properties                                               *)
(***************************************************************************)
\* the values a request's query carries under key k, in order
QueryValues(r, k) ==
    LET ps == SelectSeq(r.query, LAMBDA p : p.key = k)
    IN  [i \in DOMAIN ps |-> ps[i].value]

QueryKeys(r) == { r.query[i].key : i \in DOMAIN r.query }

\* the endpoint fixed for each entity kind
EndpointOf(name) ==
    CASE name = "SearchArtist" -> "/artist"
      [] name = "SearchRelease" -> "/release"
      [] name = "SearchReleaseGroup" -> "/release-group"
      [] name = "SearchTag" -> "/tag"

\* a call is between its request's construction and its return
InFlight == pc \in {"do", "decode", "return", "back"}

\* the search operation has returned to its caller
Returned == pc = "idle" /\ ret # <<>>

FatalErrs == {"NewRequestError", "TransportError"}

\* the entities a body holds, in the order it holds them
BodyEntries(body) ==
    LET es == SelectSeq(body, LAMBDA t : t.kind = "entity")
    IN  [i \in DOMAIN es |-> es[i].name]

\* the body is XML of the expected shape
WellFormed(body) ==
    /\ Len(body) >= 4
    /\ body[1] = OpenMetadata
    /\ body[2] = OpenList
    /\ body[Len(body) - 1] = CloseList
    /\ body[Len(body)] = CloseMetadata
    /\ \A i \in 3..(Len(body) - 2) : body[i].kind = "entity"

\* the body does not decode
BadBody(body) == ~WellFormed(body) \/ DecodeErr(body) # "nil"

(***************************************************************************)
(* Properties                                                              *)
(***************************************************************************)
\* C1: after SetClientInfo(application, version, contact) the stored header
\* is exactly "<application>/<version> ( <contact> )", nothing before or
\* after it.
C1_HeaderExact ==
    lastInfo[1] \in Applications =>
        userAgentHeader = lastInfo[1] \o "/" \o lastInfo[2] \o " ( " \o lastInfo[3] \o " )"

\* C2: a limit of -1 and an offset of -1 are each sent with an empty value,
\* never as the literal "-1", independently of one another, by every search
\* operation.
C2_SentinelEmpty ==
    req # <<>> =>
        /\ args.limit = -1 =>
              /\ QueryValues(req[1], "limit") = <<"">>
              /\ params.limit = << <<>> >>
        /\ args.offset = -1 =>
              /\ QueryValues(req[1], "offset") = <<"">>
              /\ params.offset = << <<>> >>

C2_Witness ==
    /\ req # <<>>
    /\ op = "SearchTag"
    /\ args.limit = -1
    /\ args.offset = 3489
    /\ QueryValues(req[1], "limit") = <<"">>
    /\ QueryValues(req[1], "offset") = <<"3489">>

\* C3: for a limit in 1..100 and an offset >= 0 the request's limit and
\* offset parameters are the decimal strings of the two numbers.
C3_DecimalParams ==
    (req # <<>> /\ args.limit \in 1..100 /\ args.offset >= 0) =>
        /\ QueryValues(req[1], "limit") = <<ToString(args.limit)>>
        /\ QueryValues(req[1], "offset") = <<ToString(args.offset)>>

C3_Witness ==
    /\ req # <<>>
    /\ op = "SearchRelease"
    /\ args.limit = 100
    /\ args.offset = 0
    /\ QueryValues(req[1], "limit") = <<"100">>
    /\ QueryValues(req[1], "offset") = <<"0">>

\* C4: when the body does not decode, the search operation returns a
\* non-nil decode error and a nil result, and the process keeps running.
C4_DecodeError ==
    (resp # <<>> /\ BadBody(resp[1].body)) =>
        /\ pc # "exited"
        /\ pc = "idle" =>
              /\ ret # <<>>
              /\ ret[1].err = "DecodeError"
              /\ ret[1].value = <<>>
              /\ ENABLED Next

C4_Witness ==
    /\ Returned
    /\ op = "SearchTag"
    /\ resp # <<>>
    /\ resp[1].body = <<OpenMetadata, OpenList, Tok("entity", "e1"), Junk>>
    /\ ret[1].err = "DecodeError"
    /\ ret[1].value = <<>>

\* C5: when the transport succeeds and the body decodes, the search
\* operation returns a nil error and the envelope's inner payload, whose
\* entity list is the body's, entry for entry, in the body's order.
C5_Success ==
    (pc = "idle" /\ resp # <<>> /\ WellFormed(resp[1].body)) =>
        /\ ret # <<>>
        /\ ret[1].err = "nil"
        /\ Len(ret[1].value) = 1
        /\ ret[1].value[1].Entities = BodyEntries(resp[1].body)

C5_Witness ==
    /\ Returned
    /\ op = "SearchArtist"
    /\ resp # <<>>
    /\ resp[1].body = <<OpenMetadata, OpenList, Tok("entity", "e2"), Tok("entity", "e1"),
                         CloseList, CloseMetadata>>
    /\ ret[1].value[1].Entities = <<"e2", "e1">>

\* C6: the request a search operation builds and hands to the transport is
\* a GET to the root address followed by the endpoint of its entity kind,
\* carries the parameters query, limit and offset, and its User-Agent is the
\* header stored by the most recent SetClientInfo call.
C6_Request ==
    InFlight =>
        /\ req # <<>>
        /\ req[1].method = "GET"
        /\ req[1].url = URLString(WS2RootURL) \o EndpointOf(op) \o "?" \o Encode(params)
        /\ QueryKeys(req[1]) = {"query", "limit", "offset"}
        /\ Len(req[1].query) = 3
        /\ req[1].header.UserAgent = userAgentHeader
        /\ req[1].header.UserAgent = FormatClientInfo(lastInfo[1], lastInfo[2], lastInfo[3])

C6_Witness ==
    /\ pc = "decode"
    /\ op = "SearchReleaseGroup"
    /\ lastInfo = <<"MyTool", "1.0", "a@b.com">>
    /\ WS2RootURL # DefaultRootURL
    /\ args.searchTerm = <<"Pink", " ", "Floyd">>
    /\ args.limit = -1
    /\ args.offset = -1
    /\ req[1].url = "http://127.0.0.1:8080/release-group?limit=&offset=&query=Pink+Floyd"

\* C7: a transport failure, or a request that cannot be constructed,
\* terminates the process inside the call: the search operation returns
\* neither an error nor a result.
C7_TransportFatal ==
    /\ err \in FatalErrs => (pc = "exited" /\ ret = <<>>)
    /\ ret # <<>> => ret[1].err \notin FatalErrs
    /\ pc = "exited" => (err \in FatalErrs /\ ~ENABLED Next)

C7_Witness ==
    /\ pc = "exited"
    /\ err = "TransportError"
    /\ ret = <<>>

\* C8: a search operation that obtained a response has closed its body by
\* the time it returns, whether decoding succeeded or failed; the body is
\* open while it is decoded.
C8_BodyClosed ==
    /\ (pc \in {"back", "idle"} /\ resp # <<>>) => ~resp[1].open
    /\ pc \in {"decode", "return"} => (resp # <<>> /\ resp[1].open)

C8_Witness ==
    /\ Returned
    /\ resp # <<>>
    /\ ~resp[1].open
    /\ ret[1].err = "DecodeError"
    /\ resp[1].body = <<>>

\* C9 as stated: every call issues exactly one request whatever its
\* outcome, a return or the end of the process.
C9_ExactlyOneAlways ==
    (Returned \/ pc = "exited") => sent = 1

\* C9 amended: a call issues at most one request; it has issued exactly one
\* when it returns, after a decode error and after a transport failure; a
\* call whose request cannot be constructed ends the process having issued
\* none.
C9_OneRequest ==
    /\ sent <= 1
    /\ ret # <<>> => sent = 1
    /\ err \in {"TransportError", "DecodeError"} => sent = 1
    /\ pc \in {"decode", "return", "back"} => sent = 1
    /\ err = "NewRequestError" => sent = 0

C9_Witness ==
    /\ Returned
    /\ ret[1].err = "DecodeError"
    /\ sent = 1

\* C10: limit and offset are not validated: -1 alone becomes the empty
\* value, every other integer is sent as its decimal string, and the call
\* goes on to issue its request.
C10_NoValidation ==
    /\ req # <<>> =>
          /\ QueryValues(req[1], "limit") =
                << IF args.limit = -1 THEN "" ELSE ToString(args.limit) >>
          /\ QueryValues(req[1], "offset") =
                << IF args.offset = -1 THEN "" ELSE ToString(args.offset) >>
    /\ (pc = "do" /\ (args.limit \notin 1..100 \/ args.offset < 0)) =>
          (req # <<>> /\ ENABLED DoResponse)
    /\ ret # <<>> => ret[1].err \in {"nil", "DecodeError"}

C10_Witness ==
    /\ pc = "decode"
    /\ sent = 1
    /\ args.limit = 101
    /\ args.offset = -2
    /\ QueryValues(req[1], "limit") = <<"101">>
    /\ QueryValues(req[1], "offset") = <<"-2">>

====
